---- MODULE Spec2Model ----
(***************************************************************************)
(* The entity-to-link enrichment pass of the NER notebook: find_link,      *)
(* find_all_links and enrich_entities.  Strings are sequences of           *)
(* one-character strings, so that str.replace and the f-string that        *)
(* builds the markup are computed character by character.                  *)
(***************************************************************************)
EXTENDS Integers, Sequences, FiniteSets, TLC

VARIABLES
    input_text,        \* the text the caller passes to enrich_entities
    label_entities,    \* the dict argument: a sequence of [label, entities] items
    kb,                \* the titles the knowledge base can return
    pc,                \* where the enrich_entities call is
    idx,               \* position of the comprehension in the flattened items
    attempt,           \* attempt number of the find_link call in progress
    entity_link_dict,  \* the dict find_all_links builds, in insertion order
    text,              \* the local variable text of enrich_entities
    k,                 \* position of the for loop over entity_link_dict.items()
    result,            \* the value enrich_entities returned
    calls,             \* history: the entities find_link was invoked with
    origin,            \* history: for each character of text, its index in
                       \* input_text, or 0 for a character the rewriting inserted
    last_attempt,      \* history: the latest attempt of find_link and its outcome
    outage,            \* history: every call of the wikipedia package so far
                       \* in this call of enrich_entities raised a foreign error
    answers,           \* history: the outcomes find_link attempts have had,
                       \* in this call and in the call it is compared with
    call_no,           \* which call of enrich_entities this is
    prev_result,       \* history: what the call before this one returned
    prev_label_entities, \* history: the dict argument of the call before
    task_pc,           \* where the run_openai_task call is
    task_attempt,      \* attempt number of the run_openai_task call
    task_error,        \* the exception run_openai_task ended with
    fl_pc,             \* where the body of find_link is, when followed step by step
    searched,          \* find_link: what wikipedia.search did
    paged,             \* find_link: what wikipedia.page did
    looked_up,         \* history: the titles wikipedia.page was called with
    returned           \* the value find_link returned

\* What a later call of enrich_entities is compared with.
second == <<call_no, prev_result, prev_label_entities>>

\* The state of run_openai_task.
task == <<task_pc, task_attempt, task_error>>

\* The body of find_link.
lookup == <<fl_pc, searched, paged, looked_up, returned>>

vars == <<input_text, label_entities, kb, pc, idx, attempt, entity_link_dict,
          text, k, result, calls, origin, last_attempt, outage, answers,
          second, task, lookup>>

----------------------------------------------------------------------------
(* Bounds of the model *)

MaxTextLen == 2
MaxMentionLen == 2
MaxLabels == 2
MaxMentions == 2
MaxTitles == 2
MaxTaskMentions == 1

Alphabet == {"a", "b"}
InputLabels == {"person", "org", "date"}

----------------------------------------------------------------------------
(* Program constants *)

labels ==
    {"person", "fac", "org", "gpe", "loc", "product", "event", "work_of_art",
     "law", "language", "date", "time", "percent", "money", "quantity"}

\* The filter with the list of all labels in the place of the whitelist.
whitelist_all_labels == labels

whitelist == {"event", "gpe", "org", "person", "product", "work_of_art"}

\* A retry policy that allows one attempt more.
stop_after_attempt_six == 5 + 1

stop_after_attempt == 5

\* A retry policy that stops after the first attempt.
run_openai_task_no_retry == 5 - 4

\* stop_after_attempt(5) of the decorator of run_openai_task.
run_openai_task_stop_after_attempt == 5

----------------------------------------------------------------------------
(* Strings *)

SeqsUpTo(S, n) == UNION {[1..m -> S] : m \in 0..n}

\* An Optional[str]: None, or a str.
None == [some |-> FALSE, url |-> <<>>]

Some(u) == [some |-> TRUE, url |-> u]

\* str(link), as the f-string formats it: None is formatted as "None".
Str(link) == IF link.some THEN link.url ELSE <<"N", "o", "n", "e">>

\* A markup that does not repeat the entity.
MarkupLinkOnly(entity, link) == <<"(">> \o Str(link) \o <<")">>

\* f"[{entity}]({link})"
Markup(entity, link) ==
    <<"[">> \o entity \o <<"]", "(">> \o Str(link) \o <<")">>

\* A match that takes a letter and its capital for the same character.
MatchAtIgnoreCase(s, old, i) ==
    LET lower(c) == IF c = "G" THEN "g" ELSE IF c = "A" THEN "a"
                    ELSE IF c = "B" THEN "b" ELSE c
    IN /\ i + Len(old) - 1 <= Len(s)
       /\ \A j \in 1..Len(old) : lower(s[i + j - 1]) = lower(old[j])

MatchAt(s, old, i) ==
    /\ i + Len(old) - 1 <= Len(s)
    /\ SubSeq(s, i, i + Len(old) - 1) = old

\* The places where s.replace(old, ...) finds old: it scans from the left and,
\* after an occurrence, goes on behind it, so an occurrence that starts inside
\* an earlier one is not found.
Starts(s, old) ==
    LET st[i \in 1..Len(s)] ==
            /\ MatchAt(s, old, i)
            /\ \A j \in 1..(i - 1) :
                 (i < j + Len(old) /\ MatchAt(s, old, j)) => ~st[j]
    IN {i \in 1..Len(s) : st[i]}

Covered(st, old, i) == \E j \in st : j < i /\ i < j + Len(old)

RECURSIVE Join(_, _, _)
\* The concatenation of the pieces p[lo], ..., p[hi].
Join(p, lo, hi) ==
    IF lo > hi
    THEN <<>>
    ELSE IF lo = hi
    THEN p[lo]
    ELSE LET mid == (lo + hi) \div 2
         IN Join(p, lo, mid) \o Join(p, mid + 1, hi)

\* s.replace(old, new): every occurrence found is replaced by new; an empty
\* old is found before every character and at the end.
Replace(s, old, new) ==
    IF old = <<>>
    THEN Join([i \in 1..Len(s) |-> new \o <<s[i]>>], 1, Len(s)) \o new
    ELSE LET st == Starts(s, old)
         IN Join([i \in 1..Len(s) |->
                    IF i \in st THEN new
                    ELSE IF Covered(st, old, i) THEN <<>>
                    ELSE <<s[i]>>], 1, Len(s))

Zeros(n) == [j \in 1..n |-> 0]

\* The origins of the characters of s.replace(entity, f"[{entity}]({link})"),
\* o being the origins of the characters of s: the characters of a replaced
\* occurrence keep their origins inside the brackets, the brackets and the
\* target are inserted characters.
ReplaceOrigin(s, o, entity, link) ==
    LET pre == Zeros(1)
        post == Zeros(3 + Len(Str(link)))
    IN IF entity = <<>>
       THEN Join([i \in 1..Len(s) |-> pre \o post \o <<o[i]>>], 1, Len(s))
            \o pre \o post
       ELSE LET st == Starts(s, entity)
            IN Join([i \in 1..Len(s) |->
                       IF i \in st
                       THEN pre \o SubSeq(o, i, i + Len(entity) - 1) \o post
                       ELSE IF Covered(st, entity, i) THEN <<>>
                       ELSE <<o[i]>>], 1, Len(s))

----------------------------------------------------------------------------
(* Dictionaries, in insertion order *)

HasKey(d, e) == \E i \in DOMAIN d : d[i].entity = e

\* A dict that puts a new key before the keys it has.
DictSetPrepend(d, e, v) ==
    IF \E i \in DOMAIN d : d[i].entity = e
    THEN [i \in DOMAIN d |-> IF d[i].entity = e
                             THEN [entity |-> e, link |-> v]
                             ELSE d[i]]
    ELSE <<[entity |-> e, link |-> v]>> \o d

\* A dict that keeps only the keys that have a link.
DictSetIfLink(d, e, v) ==
    IF v.some
    THEN IF \E i \in DOMAIN d : d[i].entity = e
         THEN [i \in DOMAIN d |-> IF d[i].entity = e
                                  THEN [entity |-> e, link |-> v]
                                  ELSE d[i]]
         ELSE Append(d, [entity |-> e, link |-> v])
    ELSE d

\* d[e] = v: a new key is appended, a key already there keeps its place.
DictSet(d, e, v) ==
    IF HasKey(d, e)
    THEN [i \in DOMAIN d |->
            IF d[i].entity = e THEN [entity |-> e, link |-> v] ELSE d[i]]
    ELSE Append(d, [entity |-> e, link |-> v])

Keys(d) == {d[i].entity : i \in DOMAIN d}

Get(d, e) == d[CHOOSE i \in DOMAIN d : d[i].entity = e].link

RECURSIVE Items(_)
\* for label, entities in label_entities.items() for e in entities
Items(d) ==
    IF d = <<>>
    THEN <<>>
    ELSE [i \in 1..Len(Head(d).entities) |->
            [label |-> Head(d).label, e |-> Head(d).entities[i]]]
         \o Items(Tail(d))

----------------------------------------------------------------------------
(* The knowledge base *)

ExampleText ==
    <<"I", "n", " ", "G", "e", "r", "m", "a", "n", "y", ",", " ", "i", "n",
      " ", "1", "4", "4", "0", ",", " ", "g", "o", "l", "d", "s", "m", "i",
      "t", "h", " ", "J", "o", "h", "a", "n", "n", "e", "s", " ", "G", "u",
      "t", "e", "n", "b", "e", "r", "g", " ", "i", "n", "v", "e", "n", "t",
      "e", "d", " ", "t", "h", "e", " ", "m", "o", "v", "a", "b", "l", "e",
      "-", "t", "y", "p", "e", " ", "p", "r", "i", "n", "t", "i", "n", "g",
      " ", "p", "r", "e", "s", "s", ".">>

Germany ==
    <<"G", "e", "r", "m", "a", "n", "y">>

Y1440 ==
    <<"1", "4", "4", "0">>

JohannesGutenberg ==
    <<"J", "o", "h", "a", "n", "n", "e", "s", " ", "G", "u", "t", "e", "n",
      "b", "e", "r", "g">>

PrintingPress ==
    <<"m", "o", "v", "a", "b", "l", "e", "-", "t", "y", "p", "e", " ", "p",
      "r", "i", "n", "t", "i", "n", "g", " ", "p", "r", "e", "s", "s">>

UrlGermany ==
    <<"h", "t", "t", "p", "s", ":", "/", "/", "e", "n", ".", "w", "i", "k",
      "i", "p", "e", "d", "i", "a", ".", "o", "r", "g", "/", "w", "i", "k",
      "i", "/", "G", "e", "r", "m", "a", "n", "y">>

UrlMovableType ==
    <<"h", "t", "t", "p", "s", ":", "/", "/", "e", "n", ".", "w", "i", "k",
      "i", "p", "e", "d", "i", "a", ".", "o", "r", "g", "/", "w", "i", "k",
      "i", "/", "M", "o", "v", "a", "b", "l", "e", "_", "T", "y", "p", "e">>

UrlGutenberg ==
    <<"h", "t", "t", "p", "s", ":", "/", "/", "e", "n", ".", "w", "i", "k",
      "i", "p", "e", "d", "i", "a", ".", "o", "r", "g", "/", "w", "i", "k",
      "i", "/", "J", "o", "h", "a", "n", "n", "e", "s", "_", "G", "u", "t",
      "e", "n", "b", "e", "r", "g">>

SmallKb == {"A", "B"}

ExampleKb == {"Germany", "Movable type", "Johannes Gutenberg"}

\* wikipedia.page(title).url
PageUrl(title) ==
    CASE title = "A" -> <<"/", "a">>
      [] title = "B" -> <<"/", "b">>
      [] title = "Germany" -> UrlGermany
      [] title = "Movable type" -> UrlMovableType
      [] title = "Johannes Gutenberg" -> UrlGutenberg

\* What wikipedia.search can do: return a list of titles, raise a
\* WikipediaException, or fail with another error (the network).
SearchOutcomes ==
    {[kind |-> "titles", titles |-> ts] : ts \in SeqsUpTo(kb, MaxTitles)}
    \cup {[kind |-> "WikipediaException", titles |-> <<>>],
          [kind |-> "error", titles |-> <<>>]}

\* What wikipedia.page can do.
PageOutcomes == {"page", "WikipediaException", "error"}

\* The body of find_link, were it to have no except clause.
find_link_no_except(search, page) ==
    IF search.kind = "titles" /\ search.titles = <<>>
    THEN [kind |-> "return", value |-> None]
    ELSE IF search.kind = "titles" /\ page = "page"
    THEN [kind |-> "return", value |-> Some(PageUrl(search.titles[1]))]
    ELSE [kind |-> "raise", value |-> None]

\* The body of find_link, were it to take the last title of the search.
find_link_last_title(search, page) ==
    IF search.kind = "error"
    THEN [kind |-> "raise", value |-> None]
    ELSE IF search.kind = "WikipediaException"
    THEN [kind |-> "return", value |-> None]
    ELSE IF search.titles # <<>>
    THEN IF page = "error"
         THEN [kind |-> "raise", value |-> None]
         ELSE IF page = "WikipediaException"
         THEN [kind |-> "return", value |-> None]
         ELSE [kind |-> "return",
               value |-> Some(PageUrl(search.titles[Len(search.titles)]))]
    ELSE [kind |-> "return", value |-> None]

\* The body of find_link, were its except clause to catch every exception.
find_link_catch_all(search, page) ==
    IF search.kind = "titles" /\ search.titles # <<>> /\ page = "page"
    THEN [kind |-> "return", value |-> Some(PageUrl(search.titles[1]))]
    ELSE [kind |-> "return", value |-> None]

\* One attempt of the body of find_link.
find_link(search, page) ==
    IF search.kind = "error"
    THEN [kind |-> "raise", value |-> None]
    ELSE IF search.kind = "WikipediaException"
    THEN [kind |-> "return", value |-> None]
    ELSE IF search.titles # <<>>
    THEN IF page = "error"
         THEN [kind |-> "raise", value |-> None]
         ELSE IF page = "WikipediaException"
         THEN [kind |-> "return", value |-> None]
         ELSE [kind |-> "return", value |-> Some(PageUrl(search.titles[1]))]
    ELSE [kind |-> "return", value |-> None]

----------------------------------------------------------------------------
(* Inputs *)

Texts == SeqsUpTo(Alphabet, MaxTextLen)

Mentions == SeqsUpTo(Alphabet, MaxMentionLen)

Entries == [label : InputLabels, entities : SeqsUpTo(Mentions, MaxMentions)]

RECURSIVE Total(_)
Total(d) == IF d = <<>> THEN 0 ELSE Len(Head(d).entities) + Total(Tail(d))

LabelEntities ==
    {d \in SeqsUpTo(Entries, MaxLabels) :
        /\ \A i, j \in DOMAIN d : d[i].label = d[j].label => i = j
        /\ Total(d) <= MaxMentions}

\* One-character strings: find_all_links compares mentions for equality only.
Letters == {<<c>> : c \in Alphabet}

LetterEntries == [label : InputLabels, entities : SeqsUpTo(Letters, MaxMentions)]

LetterLabelEntities ==
    {d \in SeqsUpTo(LetterEntries, MaxLabels) :
        /\ \A i, j \in DOMAIN d : d[i].label = d[j].label => i = j
        /\ Total(d) <= MaxMentions}

ExampleLabelEntities ==
    << [label |-> "gpe", entities |-> <<Germany>>],
       [label |-> "date", entities |-> <<Y1440>>],
       [label |-> "person", entities |-> <<JohannesGutenberg>>],
       [label |-> "product", entities |-> <<PrintingPress>>] >>

----------------------------------------------------------------------------
(* The state machine: one call of enrich_entities *)

items == Items(label_entities)

\* No attempt of find_link has been made yet.
NoAttempt == [e |-> <<>>, no |-> 0, kind |-> "none", value |-> None]

\* The attempt in progress, once it has ended as r.
Attempted(r) ==
    [e |-> items[idx].e, no |-> attempt, kind |-> r.kind, value |-> r.value]

\* What the attempt adds to the outcomes seen for its mention.
Answered(r) ==
    answers \cup {[e |-> items[idx].e, kind |-> r.kind, value |-> r.value]}

\* The wikipedia package raised an error that is not a WikipediaException,
\* in search or, search having found a title, in page.
Unavailable(search, page) ==
    \/ search.kind = "error"
    \/ search.kind = "titles" /\ search.titles # <<>> /\ page = "error"

Start ==
    /\ pc = "find_all_links"
    /\ idx = 1
    /\ attempt = 1
    /\ entity_link_dict = <<>>
    /\ text = input_text
    /\ k = 1
    /\ result = <<>>
    /\ calls = <<>>
    /\ origin = [i \in 1..Len(input_text) |-> i]
    /\ last_attempt = NoAttempt
    /\ outage = TRUE

\* raised: the last exception raised inside run_openai_task; surfaced: the
\* exception that left run_openai_task.
NoError == [raised |-> "none", surfaced |-> "none"]

\* No attempt of find_link is followed step by step: its attempts are taken
\* as a whole.
NoLookup ==
    /\ fl_pc = "whole"
    /\ searched = [kind |-> "none", titles |-> <<>>]
    /\ paged = "none"
    /\ looked_up = <<>>
    /\ returned = None

\* The first call of enrich_entities, made directly by the caller.
FirstCall ==
    /\ NoLookup
    /\ answers = {}
    /\ call_no = 1
    /\ prev_result = <<>>
    /\ prev_label_entities = <<>>
    /\ task_pc = "none"
    /\ task_attempt = 1
    /\ task_error = NoError

Init ==
    /\ input_text \in Texts
    /\ label_entities \in LabelEntities
    /\ kb = SmallKb
    /\ Start
    /\ FirstCall

InitLetters ==
    /\ input_text \in Letters
    /\ label_entities \in LetterLabelEntities
    /\ kb = SmallKb
    /\ Start
    /\ FirstCall

\* Texts and mentions in which a character of the markup occurs.
MarkupAlphabet == {"x", ")"}

MarkupLetters == {<<c>> : c \in MarkupAlphabet}

MarkupLabelEntities ==
    {d \in SeqsUpTo([label : InputLabels,
                     entities : SeqsUpTo(MarkupLetters, MaxMentions)], MaxLabels) :
        /\ \A i, j \in DOMAIN d : d[i].label = d[j].label => i = j
        /\ Total(d) <= MaxMentions}

InitMarkup ==
    /\ input_text \in SeqsUpTo(MarkupAlphabet, MaxTextLen)
    /\ label_entities \in MarkupLabelEntities
    /\ kb = SmallKb
    /\ Start
    /\ FirstCall

InitExample ==
    /\ input_text = ExampleText
    /\ label_entities = ExampleLabelEntities
    /\ kb = ExampleKb
    /\ Start
    /\ FirstCall

\* The comprehension is at an item whose label passes "if label in whitelist".
AtCandidate ==
    /\ pc = "find_all_links"
    /\ idx <= Len(items)
    /\ items[idx].label \in whitelist

\* The entities find_link has been invoked with, the call in progress included.
Invoked == IF attempt = 1 THEN Append(calls, items[idx].e) ELSE calls

\* An attempt of find_link(e) returns: the comprehension stores e: link.
FindLinkReturns ==
    /\ AtCandidate
    /\ \E search \in SearchOutcomes, page \in PageOutcomes :
         LET r == find_link(search, page) IN
         /\ r.kind = "return"
         /\ entity_link_dict' = DictSet(entity_link_dict, items[idx].e, r.value)
         /\ last_attempt' = Attempted(r)
         /\ answers' = Answered(r)
         /\ outage' = (outage /\ Unavailable(search, page))
    /\ calls' = Invoked
    /\ idx' = idx + 1
    /\ attempt' = 1
    /\ UNCHANGED <<input_text, label_entities, kb, pc, text, k, result, origin,
                   second, task,
                   lookup>>

\* An attempt raises an error find_link does not catch and the retry policy
\* has attempts left: find_link is attempted again.
FindLinkRetries ==
    /\ AtCandidate
    /\ attempt < stop_after_attempt
    /\ \E search \in SearchOutcomes, page \in PageOutcomes :
         LET r == find_link(search, page) IN
         /\ r.kind = "raise"
         /\ last_attempt' = Attempted(r)
         /\ answers' = Answered(r)
         /\ outage' = (outage /\ Unavailable(search, page))
    /\ calls' = Invoked
    /\ attempt' = attempt + 1
    /\ UNCHANGED <<input_text, label_entities, kb, pc, idx, entity_link_dict,
                   text, k, result, origin, second, task,
                   lookup>>

\* A find_all_links that yields its entries one by one: the rewriting starts
\* as soon as one link is known.
find_all_links_lazy ==
    /\ pc = "find_all_links"
    /\ idx > 1 \/ idx > Len(items)
    /\ pc' = "rewrite"
    /\ UNCHANGED <<input_text, label_entities, kb, idx, attempt,
                   entity_link_dict, text, k, result, calls, origin,
                   last_attempt, outage, answers, second, task, lookup>>

\* The last attempt raises and the rewriting goes on with the links found so
\* far.
FindLinkGivesUpPartial ==
    /\ AtCandidate
    /\ attempt = stop_after_attempt
    /\ \E search \in SearchOutcomes, page \in PageOutcomes :
         LET r == find_link(search, page) IN
         /\ r.kind = "raise"
         /\ last_attempt' = Attempted(r)
         /\ answers' = Answered(r)
         /\ outage' = (outage /\ Unavailable(search, page))
    /\ calls' = Invoked
    /\ pc' = "rewrite"
    /\ UNCHANGED <<input_text, label_entities, kb, idx, attempt,
                   entity_link_dict, text, k, result, origin, second, task,
                   lookup>>

\* The last attempt raises: the error leaves find_link, find_all_links and
\* enrich_entities.
FindLinkGivesUp ==
    /\ AtCandidate
    /\ attempt = stop_after_attempt
    /\ \E search \in SearchOutcomes, page \in PageOutcomes :
         LET r == find_link(search, page) IN
         /\ r.kind = "raise"
         /\ last_attempt' = Attempted(r)
         /\ answers' = Answered(r)
         /\ outage' = (outage /\ Unavailable(search, page))
    /\ calls' = Invoked
    /\ pc' = "raised"
    /\ UNCHANGED <<input_text, label_entities, kb, idx, attempt,
                   entity_link_dict, text, k, result, origin, second, task,
                   lookup>>

\* An item whose label is not in the whitelist is filtered out.
SkipEntity ==
    /\ pc = "find_all_links"
    /\ idx <= Len(items)
    /\ items[idx].label \notin whitelist
    /\ idx' = idx + 1
    /\ UNCHANGED <<input_text, label_entities, kb, pc, attempt,
                   entity_link_dict, text, k, result, calls, origin,
                   last_attempt, outage, answers, second, task,
                   lookup>>

\* find_all_links returns a dict whose iteration order is any order of its
\* keys.
find_all_links_unordered ==
    /\ pc = "find_all_links"
    /\ idx > Len(items)
    /\ pc' = "rewrite"
    /\ \E d \in SeqsUpTo({entity_link_dict[i] : i \in DOMAIN entity_link_dict},
                         Len(entity_link_dict)) :
         /\ Len(d) = Len(entity_link_dict)
         /\ \A i \in DOMAIN entity_link_dict : \E j \in DOMAIN d :
              d[j] = entity_link_dict[i]
         /\ entity_link_dict' = d
    /\ UNCHANGED <<input_text, label_entities, kb, idx, attempt,
                   text, k, result, calls, origin,
                   last_attempt, outage, answers, second, task,
                   lookup>>

\* find_all_links returns the dict; enrich_entities starts its loop.
find_all_links ==
    /\ pc = "find_all_links"
    /\ idx > Len(items)
    /\ pc' = "rewrite"
    /\ UNCHANGED <<input_text, label_entities, kb, idx, attempt,
                   entity_link_dict, text, k, result, calls, origin,
                   last_attempt, outage, answers, second, task,
                   lookup>>

\* One iteration of "for entity, link in entity_link_dict.items()".
ReplaceEntity ==
    /\ pc = "rewrite"
    /\ k <= Len(entity_link_dict)
    /\ LET entity == entity_link_dict[k].entity
           link == entity_link_dict[k].link
       IN /\ text' = Replace(text, entity, Markup(entity, link))
          /\ origin' = ReplaceOrigin(text, origin, entity, link)
    /\ k' = k + 1
    /\ UNCHANGED <<input_text, label_entities, kb, pc, idx, attempt,
                   entity_link_dict, result, calls, last_attempt, outage,
                   answers, second, task,
                   lookup>>

\* return text
enrich_entities ==
    /\ pc = "rewrite"
    /\ k > Len(entity_link_dict)
    /\ pc' = "done"
    /\ result' = text
    /\ UNCHANGED <<input_text, label_entities, kb, idx, attempt,
                   entity_link_dict, text, k, calls, origin, last_attempt,
                   outage, answers, second, task,
                   lookup>>

\* The same mentions under the same labels, the labels and the mentions of
\* each label in any order.
Reordered(d1, d2) ==
    /\ Len(d1) = Len(d2)
    /\ \A i \in DOMAIN d1 : \E j \in DOMAIN d2 :
         /\ d1[i].label = d2[j].label
         /\ Len(d1[i].entities) = Len(d2[j].entities)
         /\ \A e \in Mentions :
              Cardinality({n \in DOMAIN d1[i].entities : d1[i].entities[n] = e})
              = Cardinality({n \in DOMAIN d2[j].entities : d2[j].entities[n] = e})

\* The sequences that list the elements of q in another order.
PermsOf(q) ==
    {[i \in DOMAIN q |-> q[p[i]]] :
        p \in {f \in [DOMAIN q -> DOMAIN q] :
                  \A a, b \in DOMAIN q : f[a] = f[b] => a = b}}

\* The dicts that list the labels of d, and the mentions of each label, in
\* another order.
Reorderings(d) ==
    UNION {
        {[i \in DOMAIN dp |-> [label |-> dp[i].label, entities |-> x[i]]] :
            x \in {y \in [DOMAIN dp ->
                            UNION {PermsOf(dp[j].entities) : j \in DOMAIN dp}] :
                      \A i \in DOMAIN dp : y[i] \in PermsOf(dp[i].entities)}} :
        dp \in PermsOf(d)}

\* A second call that finds the link map of the first call still there.
CallAgainKeepsMap ==
    /\ pc = "done"
    /\ call_no = 1
    /\ \E d \in Reorderings(label_entities) : label_entities' = d
    /\ call_no' = 2
    /\ prev_result' = result
    /\ prev_label_entities' = label_entities
    /\ pc' = "find_all_links"
    /\ idx' = 1
    /\ attempt' = 1
    /\ text' = input_text
    /\ k' = 1
    /\ result' = <<>>
    /\ calls' = <<>>
    /\ origin' = [i \in 1..Len(input_text) |-> i]
    /\ last_attempt' = NoAttempt
    /\ outage' = TRUE
    /\ UNCHANGED <<input_text, kb, entity_link_dict, answers, task, lookup>>

\* The caller, a call having returned, calls enrich_entities once more with
\* the same text and the same mentions, listed in any order.
CallAgain ==
    /\ pc = "done"
    /\ call_no = 1
    /\ \E d \in Reorderings(label_entities) : label_entities' = d
    /\ call_no' = 2
    /\ prev_result' = result
    /\ prev_label_entities' = label_entities
    /\ pc' = "find_all_links"
    /\ idx' = 1
    /\ attempt' = 1
    /\ entity_link_dict' = <<>>
    /\ text' = input_text
    /\ k' = 1
    /\ result' = <<>>
    /\ calls' = <<>>
    /\ origin' = [i \in 1..Len(input_text) |-> i]
    /\ last_attempt' = NoAttempt
    /\ outage' = TRUE
    /\ UNCHANGED <<input_text, kb, answers, task, lookup>>

Next ==
    \/ FindLinkReturns
    \/ FindLinkRetries
    \/ FindLinkGivesUp
    \/ SkipEntity
    \/ find_all_links
    \/ ReplaceEntity
    \/ enrich_entities

Spec == Init /\ [][Next]_vars

\* The calls whose text and mentions are one character long.
SpecLetters == InitLetters /\ [][Next]_vars

SpecExample == InitExample /\ [][Next]_vars

\* The resolver gave the same answer whenever it was asked about the same
\* mention, in this call and in the call before.
Deterministic == \A x, y \in answers : x.e = y.e => x = y

\* A text in which two mentions of one character occur.
TwoCallText == <<"a", "b">>

\* Two calls in a row on that text, with a resolver whose answer for a
\* mention never changes.
InitTwoCalls ==
    /\ input_text = TwoCallText
    /\ label_entities \in LetterLabelEntities
    /\ kb = SmallKb
    /\ Start
    /\ FirstCall

NextTwoCalls ==
    \/ Next /\ Deterministic'
    \/ CallAgain

SpecTwoCalls == InitTwoCalls /\ [][NextTwoCalls]_vars

\* The exceptions the model call and the parsing of its arguments can raise.
ModelErrors == {"ModelUnavailable", "MalformedResponse"}

\* The arguments the model passes to enrich_entities.
TaskLabelEntities ==
    {d \in SeqsUpTo([label : InputLabels,
                     entities : SeqsUpTo(Letters, MaxTaskMentions)],
                    MaxTaskMentions) :
        /\ \A i, j \in DOMAIN d : d[i].label = d[j].label => i = j
        /\ Total(d) <= MaxTaskMentions}

\* run_openai_task is called with a text: the first attempt begins.
InitTask ==
    /\ input_text \in Letters
    /\ label_entities = <<>>
    /\ kb = SmallKb
    /\ Start
    /\ answers = {}
    /\ call_no = 1
    /\ prev_result = <<>>
    /\ prev_label_entities = <<>>
    /\ task_pc = "model"
    /\ task_attempt = 1
    /\ task_error = NoError
    /\ NoLookup

\* An exception leaves the body of run_openai_task: the retry policy starts
\* the body again or, the attempts being used up, raises RetryError.
AttemptFails(err) ==
    IF task_attempt < run_openai_task_stop_after_attempt
    THEN /\ task_pc' = "model"
         /\ task_attempt' = task_attempt + 1
         /\ task_error' = [raised |-> err, surfaced |-> "none"]
    ELSE /\ task_pc' = "failed"
         /\ task_attempt' = task_attempt
         /\ task_error' = [raised |-> err, surfaced |-> "RetryError"]

\* openai.chat.completions.create or json.loads raises.
ModelFails ==
    /\ task_pc = "model"
    /\ \E err \in ModelErrors : AttemptFails(err)
    /\ UNCHANGED <<input_text, label_entities, kb, pc, idx, attempt,
                   entity_link_dict, text, k, result, calls, origin,
                   last_attempt, outage, answers, second, lookup>>

\* An attempt that goes on from the map and the calls of the attempt that
\* failed before it.
ModelReturnsKeeps(args) ==
    /\ task_pc = "model"
    /\ label_entities' = args
    /\ task_pc' = "enrich"
    /\ pc' = "find_all_links"
    /\ idx' = 1
    /\ attempt' = 1
    /\ text' = input_text
    /\ k' = 1
    /\ result' = <<>>
    /\ origin' = [i \in 1..Len(input_text) |-> i]
    /\ last_attempt' = NoAttempt
    /\ outage' = TRUE
    /\ answers' = {}
    /\ UNCHANGED <<input_text, kb, entity_link_dict, calls, second,
                   task_attempt, task_error, lookup>>

\* The model answers and its arguments parse to args:
\* function_to_call(text, function_args) is called.
ModelReturnsWith(args) ==
    /\ task_pc = "model"
    /\ label_entities' = args
    /\ task_pc' = "enrich"
    /\ pc' = "find_all_links"
    /\ idx' = 1
    /\ attempt' = 1
    /\ entity_link_dict' = <<>>
    /\ text' = input_text
    /\ k' = 1
    /\ result' = <<>>
    /\ calls' = <<>>
    /\ origin' = [i \in 1..Len(input_text) |-> i]
    /\ last_attempt' = NoAttempt
    /\ outage' = TRUE
    /\ answers' = {}
    /\ UNCHANGED <<input_text, kb, second, task_attempt, task_error, lookup>>

ModelReturns == \E args \in TaskLabelEntities : ModelReturnsWith(args)

\* The RetryError of find_link leaves enrich_entities inside the body.
EnrichFails ==
    /\ task_pc = "enrich"
    /\ pc = "raised"
    /\ AttemptFails("RetryError")
    /\ UNCHANGED <<input_text, label_entities, kb, pc, idx, attempt,
                   entity_link_dict, text, k, result, calls, origin,
                   last_attempt, outage, answers, second, lookup>>

\* return {"model_response": response, "function_response": function_response}
run_openai_task ==
    /\ task_pc = "enrich"
    /\ pc = "done"
    /\ task_pc' = "returned"
    /\ UNCHANGED <<input_text, label_entities, kb, pc, idx, attempt,
                   entity_link_dict, text, k, result, calls, origin,
                   last_attempt, outage, answers, second, task_attempt,
                   task_error, lookup>>

NextTask ==
    \/ ModelFails
    \/ ModelReturns
    \/ task_pc = "enrich" /\ Next
    \/ EnrichFails
    \/ run_openai_task

SpecTask == InitTask /\ [][NextTask]_vars

\* run_openai_task on a text of two words, the model naming both words or
\* the second one only.
PairText == <<"a", "b">>

PairLabelEntities ==
    { << [label |-> "person", entities |-> << <<"a">>, <<"b">> >>] >>,
      << [label |-> "person", entities |-> << <<"b">> >>] >> }

InitTaskPair ==
    /\ input_text = PairText
    /\ label_entities = <<>>
    /\ kb = SmallKb
    /\ Start
    /\ answers = {}
    /\ call_no = 1
    /\ prev_result = <<>>
    /\ prev_label_entities = <<>>
    /\ task_pc = "model"
    /\ task_attempt = 1
    /\ task_error = NoError
    /\ NoLookup

ModelReturnsPair == \E args \in PairLabelEntities : ModelReturnsWith(args)

NextTaskPair ==
    \/ ModelFails
    \/ ModelReturnsPair
    \/ task_pc = "enrich" /\ Next
    \/ EnrichFails
    \/ run_openai_task

SpecTaskPair == InitTaskPair /\ [][NextTaskPair]_vars

\* find_all_links calls find_link(e) for its first item, a whitelisted one;
\* the body of find_link is followed step by step.
InitFindLink ==
    /\ input_text \in Letters
    /\ label_entities \in
         {<<[label |-> l, entities |-> <<e>>]>> :
             l \in InputLabels \cap whitelist, e \in Mentions}
    /\ kb = SmallKb
    /\ Start
    /\ answers = {}
    /\ call_no = 1
    /\ prev_result = <<>>
    /\ prev_label_entities = <<>>
    /\ task_pc = "none"
    /\ task_attempt = 1
    /\ task_error = NoError
    /\ fl_pc = "search"
    /\ searched = [kind |-> "none", titles |-> <<>>]
    /\ paged = "none"
    /\ looked_up = <<>>
    /\ returned = None

\* titles = wikipedia.search(entity), and "if titles:".
wikipedia_search ==
    /\ fl_pc = "search"
    /\ \E s \in SearchOutcomes :
         /\ searched' = s
         /\ fl_pc' = IF s.kind = "titles" /\ s.titles # <<>>
                     THEN "page"
                     ELSE "end"
    /\ UNCHANGED <<input_text, label_entities, kb, pc, idx, attempt,
                   entity_link_dict, text, k, result, calls, origin,
                   last_attempt, outage, answers, second, task,
                   paged, looked_up, returned>>

\* page = wikipedia.page(titles[0])
wikipedia_page ==
    /\ fl_pc = "page"
    /\ looked_up' = Append(looked_up, searched.titles[1])
    /\ \E p \in PageOutcomes : paged' = p
    /\ fl_pc' = "end"
    /\ UNCHANGED <<input_text, label_entities, kb, pc, idx, attempt,
                   entity_link_dict, text, k, result, calls, origin,
                   last_attempt, outage, answers, second, task,
                   searched, returned>>

\* What the attempt that has just ended adds to the history.
AttemptEnds(r) ==
    /\ calls' = Invoked
    /\ last_attempt' = Attempted(r)
    /\ answers' = Answered(r)
    /\ outage' = (outage /\ Unavailable(searched, paged))

\* return page.url, or the except clause and return None.
AttemptReturns ==
    /\ fl_pc = "end"
    /\ LET r == find_link(searched, paged) IN
         /\ r.kind = "return"
         /\ returned' = r.value
         /\ AttemptEnds(r)
    /\ fl_pc' = "returned"
    /\ UNCHANGED <<input_text, label_entities, kb, pc, idx, attempt,
                   entity_link_dict, text, k, result, origin, second, task,
                   searched, paged, looked_up>>

\* An exception leaves the body and the retry policy starts it again.
AttemptRetries ==
    /\ fl_pc = "end"
    /\ attempt < stop_after_attempt
    /\ LET r == find_link(searched, paged) IN
         /\ r.kind = "raise"
         /\ AttemptEnds(r)
    /\ attempt' = attempt + 1
    /\ fl_pc' = "search"
    /\ searched' = [kind |-> "none", titles |-> <<>>]
    /\ paged' = "none"
    /\ looked_up' = <<>>
    /\ UNCHANGED <<input_text, label_entities, kb, pc, idx,
                   entity_link_dict, text, k, result, origin, second, task,
                   returned>>

\* An exception leaves the body at the last attempt: RetryError.
AttemptGivesUp ==
    /\ fl_pc = "end"
    /\ attempt = stop_after_attempt
    /\ LET r == find_link(searched, paged) IN
         /\ r.kind = "raise"
         /\ AttemptEnds(r)
    /\ fl_pc' = "raised"
    /\ UNCHANGED <<input_text, label_entities, kb, pc, idx, attempt,
                   entity_link_dict, text, k, result, origin, second, task,
                   searched, paged, looked_up, returned>>

NextFindLink ==
    \/ wikipedia_search
    \/ wikipedia_page
    \/ AttemptReturns
    \/ AttemptRetries
    \/ AttemptGivesUp

SpecFindLink == InitFindLink /\ [][NextFindLink]_vars

\* A text in which one letter stands in lower and in upper case.
CaseText == <<"g", "G">>

CaseLetters == {<<"g">>, <<"G">>}

CaseLabelEntities ==
    {d \in SeqsUpTo([label : InputLabels,
                     entities : SeqsUpTo(CaseLetters, MaxMentions)], MaxLabels) :
        /\ \A i, j \in DOMAIN d : d[i].label = d[j].label => i = j
        /\ Total(d) <= MaxMentions}

InitCase ==
    /\ input_text = CaseText
    /\ label_entities \in CaseLabelEntities
    /\ kb = SmallKb
    /\ Start
    /\ FirstCall

\* The calls whose text and mentions differ in case only.
SpecCase == InitCase /\ [][Next]_vars

\* A text and mentions of different lengths, one inside the other or
\* overlapping it in the text.
WordText == <<"a", "a", "b">>

WordMentions == {<<"a">>, <<"a", "b">>}

WordLabelEntities ==
    {d \in SeqsUpTo([label : InputLabels,
                     entities : SeqsUpTo(WordMentions, MaxMentions)], MaxLabels) :
        /\ \A i, j \in DOMAIN d : d[i].label = d[j].label => i = j
        /\ Total(d) <= MaxMentions}

InitWords ==
    /\ input_text = WordText
    /\ label_entities \in WordLabelEntities
    /\ kb = SmallKb
    /\ Start
    /\ FirstCall

\* The calls on that text.
SpecWords == InitWords /\ [][Next]_vars

\* The calls whose text and mentions may hold a closing parenthesis.
SpecMarkup == InitMarkup /\ [][Next]_vars

----------------------------------------------------------------------------
(* What the claims speak of *)

Occurrences(s, m) == {i \in 1..Len(s) : MatchAt(s, m, i)}

IsSubstring(a, b) == \E i \in 1..(Len(b) + 1) : MatchAt(b, a, i)

\* The mentions the comprehension keeps, with the whitelist as the spec gives it.
Candidates ==
    {items[i].e : i \in {j \in DOMAIN items : items[j].label \in
        {"event", "gpe", "org", "person", "product", "work_of_art"}}}

\* The mentions listed under a category outside the whitelist.
OtherMentions ==
    {items[i].e : i \in {j \in DOMAIN items : items[j].label \notin
        {"event", "gpe", "org", "person", "product", "work_of_art"}}}

\* The extractor kept its contract: every mention it lists is a non-empty
\* substring of the text.
Conforming ==
    \A i \in DOMAIN items :
        items[i].e # <<>> /\ IsSubstring(items[i].e, input_text)

Resolved == {e \in Keys(entity_link_dict) : Get(entity_link_dict, e).some}

Unresolved == {e \in Keys(entity_link_dict) : ~Get(entity_link_dict, e).some}

\* Where character i of input_text is in text.
Pos(i) == CHOOSE p \in DOMAIN origin : origin[p] = i

Inserted(p, c) == p \in DOMAIN text /\ text[p] = c /\ origin[p] = 0

\* The n characters of input_text from i on are still next to each other.
Contiguous(i, n) == Pos(i + n - 1) = Pos(i) + n - 1

\* They stand between an inserted "[" and an inserted "]".
Wrapped(i, n) == Inserted(Pos(i) - 1, "[") /\ Inserted(Pos(i + n - 1) + 1, "]")

\* They stand in text as "[m](target)", m being those n characters.
WrappedAs(i, n, target) ==
    /\ Contiguous(i, n)
    /\ Wrapped(i, n)
    /\ LET q == Pos(i + n - 1) + 1
       IN /\ q + Len(target) + 2 <= Len(text)
          /\ SubSeq(text, q + 1, q + Len(target) + 2)
               = <<"(">> \o target \o <<")">>
          /\ \A p \in (q + 1)..(q + Len(target) + 2) : origin[p] = 0

Untouched(i, n) == Contiguous(i, n) /\ ~Wrapped(i, n)

\* How many markup spans are open before position p of s.
Depth(s, p) ==
    Cardinality({q \in 1..(p - 1) : s[q] \in {"[", "("}})
    - Cardinality({q \in 1..(p - 1) : s[q] \in {"]", ")"}})

----------------------------------------------------------------------------
(* The claims *)

ExampleExpected ==
    <<"I", "n", " ", "[", "G", "e", "r", "m", "a", "n", "y", "]", "(", "h",
      "t", "t", "p", "s", ":", "/", "/", "e", "n", ".", "w", "i", "k", "i",
      "p", "e", "d", "i", "a", ".", "o", "r", "g", "/", "w", "i", "k", "i",
      "/", "G", "e", "r", "m", "a", "n", "y", ")", ",", " ", "i", "n", " ",
      "1", "4", "4", "0", ",", " ", "g", "o", "l", "d", "s", "m", "i", "t",
      "h", " ", "J", "o", "h", "a", "n", "n", "e", "s", " ", "G", "u", "t",
      "e", "n", "b", "e", "r", "g", " ", "i", "n", "v", "e", "n", "t", "e",
      "d", " ", "t", "h", "e", " ", "[", "m", "o", "v", "a", "b", "l", "e",
      "-", "t", "y", "p", "e", " ", "p", "r", "i", "n", "t", "i", "n", "g",
      " ", "p", "r", "e", "s", "s", "]", "(", "h", "t", "t", "p", "s", ":",
      "/", "/", "e", "n", ".", "w", "i", "k", "i", "p", "e", "d", "i", "a",
      ".", "o", "r", "g", "/", "w", "i", "k", "i", "/", "M", "o", "v", "a",
      "b", "l", "e", "_", "T", "y", "p", "e", ")", ".">>

\* C1: the end-to-end example. With Germany and the printing press resolved
\* to their pages and Johannes Gutenberg resolved to no reference, the call
\* returns the expected text, "1440" and "Johannes Gutenberg" untouched.
C1_EndToEndExample ==
    ( /\ pc = "done"
      /\ input_text = ExampleText
      /\ label_entities = ExampleLabelEntities
      /\ Get(entity_link_dict, Germany) = Some(UrlGermany)
      /\ Get(entity_link_dict, JohannesGutenberg) = None
      /\ Get(entity_link_dict, PrintingPress) = Some(UrlMovableType) )
    => result = ExampleExpected

\* C2: whitelist purity. In the returned text every occurrence of a mention
\* of a category outside the whitelist stands as it stood in the input: no
\* markup inside it and none around it. Stated for the calls in which the
\* extractor kept its contract and every candidate resolved.
C2_WhitelistPurity ==
    (pc = "done" /\ Conforming /\ Unresolved = {}) =>
        \A m \in OtherMentions : \A i \in Occurrences(input_text, m) :
            Untouched(i, Len(m))

\* C3: the keys of the link map are exactly the distinct mentions listed
\* under the whitelisted categories; a mention listed only under other
\* categories is never a key and never passed to find_link.
C3_LinkMapKeys ==
    /\ Keys(entity_link_dict) \subseteq Candidates
    /\ \A c \in DOMAIN calls : calls[c] \in Candidates
    /\ pc \in {"rewrite", "done"} => Keys(entity_link_dict) = Candidates

\* C3, its case: a call has returned whose input lists a mention under a
\* whitelisted category and another mention only under another category.
C3_Witness ==
    /\ pc = "done"
    /\ Keys(entity_link_dict) # {}
    /\ OtherMentions \ Candidates # {}

\* C4: when every candidate resolves to no reference, the returned text is
\* the input text. Stated for the calls in which the extractor kept its
\* contract.
C4_AllUnresolvedUnchanged ==
    (pc = "done" /\ Conforming /\ Resolved = {}) => result = input_text

\* C5: in a call where some mentions resolve and others do not, no
\* unresolved mention is wrapped: the returned text holds no "[mention]("
\* and every occurrence of the mention stands as it stood in the input.
\* Stated for the calls in which the extractor kept its contract and no
\* mention is a substring of another.
C5_UnresolvedNeverWrapped ==
    ( /\ pc = "done" /\ Conforming /\ Resolved # {} /\ Unresolved # {}
      /\ \A a, b \in Keys(entity_link_dict) : IsSubstring(a, b) => a = b ) =>
        \A m \in Unresolved :
            /\ ~IsSubstring(<<"[">> \o m \o <<"]", "(">>, result)
            /\ \A i \in Occurrences(input_text, m) : Untouched(i, Len(m))

\* C6: single wrap. In the returned text no markup span opens inside
\* another markup span, be it inside its label or inside its target. Stated
\* for the calls in which the extractor kept its contract and every
\* candidate resolved.
C6_SingleWrap ==
    (pc = "done" /\ Conforming /\ Unresolved = {}) =>
        \A p \in DOMAIN result : result[p] = "[" => Depth(result, p) = 0

\* C7: longest first. When two resolved mentions are such that A is a proper
\* substring of B, B is replaced before A, and every occurrence of B in the
\* input stands in the returned text as one "[B](R_B)". Stated for the calls
\* in which the extractor kept its contract.
C7_LongestFirst ==
    (pc = "done" /\ Conforming) =>
        \A a, b \in Resolved :
            (a # b /\ IsSubstring(a, b)) =>
                /\ \E i, j \in DOMAIN entity_link_dict :
                     /\ entity_link_dict[i].entity = b
                     /\ entity_link_dict[j].entity = a
                     /\ i < j
                /\ \A i \in Starts(input_text, b) :
                     WrappedAs(i, Len(b), Get(entity_link_dict, b).url)

\* C8: no rewriting inside inserted markup. The occurrences a replacement
\* step finds are occurrences in the input text: none of their characters
\* was inserted by an earlier replacement. Stated for the calls in which the
\* extractor kept its contract, every candidate resolved and no mention is
\* a substring of another.
C8_NoRewriteInsideMarkup ==
    ( /\ pc = "rewrite" /\ k <= Len(entity_link_dict)
      /\ Conforming /\ Unresolved = {}
      /\ \A a, b \in Keys(entity_link_dict) : IsSubstring(a, b) => a = b ) =>
        LET entity == entity_link_dict[k].entity
        IN \A i \in Starts(text, entity) :
               \A p \in i..(i + Len(entity) - 1) : origin[p] # 0

\* C9: all occurrences. A resolved mention M with reference R that is not a
\* substring of another resolved mention and occurs K times in the input
\* occurs K times as "[M](R)" in the returned text, once at each occurrence.
\* Stated for the calls in which the extractor kept its contract and every
\* candidate resolved.
C9_AllOccurrences ==
    (pc = "done" /\ Conforming /\ Unresolved = {}) =>
        \A m \in Resolved :
            (\A b \in Resolved : IsSubstring(m, b) => b = m) =>
                LET R == Get(entity_link_dict, m).url
                IN /\ Cardinality(Starts(result, Markup(m, Some(R))))
                        = Cardinality(Starts(input_text, m))
                   /\ \A i \in Starts(input_text, m) : WrappedAs(i, Len(m), R)

\* C10: within one call find_link is invoked at most once for each distinct
\* mention string. Stated for the calls in which the extractor kept its
\* contract.
C10_ResolverCallMinimality ==
    Conforming => \A i, j \in DOMAIN calls : calls[i] = calls[j] => i = j

\* C11: a partial resolver failure is never a failure of the call. When the
\* attempts for one mention are exhausted while another mention has
\* resolved, no error leaves enrich_entities: the mention is recorded as
\* unresolved and the call goes on to return a text. Stated for the calls in
\* which the extractor kept its contract.
C11_PartialFailureNotSurfaced ==
    (/\ Conforming
     /\ idx \in DOMAIN items
     /\ Resolved \ {items[idx].e} # {}) => pc # "raised"

\* C17: a whitelisted mention for which no link is found appears in the
\* returned text as "[mention]()", wrapped with an empty link target: every
\* occurrence of it in the input stands so in the returned text. Stated for
\* the calls in which the extractor kept its contract and no mention is a
\* substring of another.
C17_UnresolvedEmptyTarget ==
    ( /\ pc = "done" /\ Conforming
      /\ \A a, b \in Keys(entity_link_dict) : IsSubstring(a, b) => a = b ) =>
        \A m \in Unresolved :
            \A i \in Occurrences(input_text, m) : WrappedAs(i, Len(m), <<>>)

\* C20: bounded retry of a resolver call. One invocation of find_link makes
\* at most 5 attempts; an attempt beyond the first is made only when the
\* attempt before it, for the same mention, raised an error find_link does
\* not catch; the first attempt that does not raise ends the invocation and
\* its result is the value stored for the mention; and the invocation has
\* ended, with a result or with a failure, once the fifth attempt is over.
C20_BoundedRetry ==
    /\ attempt \in 1..5
    /\ last_attempt.no \in 0..5
    /\ (pc = "find_all_links" /\ attempt > 1) =>
         /\ last_attempt.kind = "raise"
         /\ last_attempt.no = attempt - 1
         /\ last_attempt.e = items[idx].e
    /\ last_attempt.kind = "return" =>
         /\ attempt = 1
         /\ HasKey(entity_link_dict, last_attempt.e)
         /\ Get(entity_link_dict, last_attempt.e) = last_attempt.value
    /\ last_attempt.kind = "raise" =>
         IF last_attempt.no < 5
         THEN pc = "find_all_links" /\ attempt = last_attempt.no + 1
         ELSE pc = "raised"
    /\ pc = "raised" => last_attempt.kind = "raise" /\ last_attempt.no = 5

\* C20, its case: four attempts for a mention raised and the fifth returned.
C20_Witness ==
    /\ last_attempt.kind = "return"
    /\ last_attempt.no = 5

\* C12: total resolver outage surfaces as one call-level failure. In a call
\* with at least one candidate in which every attempt so far found the
\* resolver unavailable, no link map and no text is ever returned; only one
\* invocation of find_link is made, that for the first candidate, so that one
\* failure reaches the caller and not one per mention; and once its fifth
\* attempt is over the call has failed.
C12_TotalOutage ==
    (Candidates # {} /\ outage) =>
        /\ pc \in {"find_all_links", "raised"}
        /\ entity_link_dict = <<>> /\ result = <<>>
        /\ Len(calls) <= 1
        /\ \A c \in DOMAIN calls : calls[c] \in Candidates
        /\ pc = "raised" <=> last_attempt.no = 5

\* C12, its case: a call with two candidates has failed, the resolver having
\* been unavailable at each of its attempts.
C12_Witness ==
    /\ pc = "raised"
    /\ outage
    /\ Cardinality(Candidates) >= 2

\* C19: an unresolved mention is recorded, not dropped. When find_link
\* returns for a mention, with a link or with None, the map holds the mention
\* as a key with exactly that value; no key is held twice; and the map
\* find_all_links returns has one entry per distinct whitelisted mention,
\* whether or not it resolved.
C19_UnresolvedRecorded ==
    /\ last_attempt.kind = "return" =>
         /\ HasKey(entity_link_dict, last_attempt.e)
         /\ Get(entity_link_dict, last_attempt.e) = last_attempt.value
    /\ \A i, j \in DOMAIN entity_link_dict :
         entity_link_dict[i].entity = entity_link_dict[j].entity => i = j
    /\ pc \in {"rewrite", "done"} =>
         /\ Len(entity_link_dict) = Cardinality(Candidates)
         /\ \A e \in Candidates : HasKey(entity_link_dict, e)
         /\ \A e \in Candidates :
              (\A a \in answers : (a.e = e /\ a.kind = "return") => ~a.value.some)
                  => Get(entity_link_dict, e) = None

\* C19, its case: find_all_links has returned a map for two candidates, one
\* resolved and one for which find_link returned None.
C19_Witness ==
    /\ pc \in {"rewrite", "done"}
    /\ Resolved # {}
    /\ Unresolved # {}
    /\ ~last_attempt.value.some

\* C16: all-or-nothing enrichment. A call that has not returned, be it
\* stopped or failed at a resolver call, has handed no text to the caller
\* and has rewritten nothing; the rewriting starts only when every candidate
\* has a recorded outcome; the returned string is the outcome of that
\* rewriting; and no step changes the text the caller passed.
C16_AllOrNothing ==
    /\ [](/\ pc # "done" => result = <<>>
          /\ pc \in {"find_all_links", "raised"} => (text = input_text /\ k = 1)
          /\ pc \in {"rewrite", "done"} =>
               \A e \in Candidates : HasKey(entity_link_dict, e)
          /\ pc = "done" => (result = text /\ k = Len(entity_link_dict) + 1))
    /\ [][input_text' = input_text]_vars

\* C16, its case: a call has failed at a resolver call after a link was
\* found for an earlier candidate.
C16_Witness ==
    /\ pc = "raised"
    /\ Resolved # {}
    /\ result = <<>>

\* The text s with every occurrence of a key of d, taken from left to right,
\* replaced by its markup and every other character kept.
Linked(s, d) ==
    LET hit(i) == {e \in Keys(d) : MatchAt(s, e, i)}
        len(i) == Len(CHOOSE e \in hit(i) : TRUE)
        taken[i \in 1..Len(s)] ==
            /\ hit(i) # {}
            /\ \A j \in 1..(i - 1) : (taken[j] /\ hit(j) # {}) => j + len(j) <= i
        inside(i) == \E j \in 1..(i - 1) : taken[j] /\ i < j + len(j)
        piece == [i \in 1..Len(s) |->
                    IF taken[i]
                    THEN LET e == CHOOSE e \in hit(i) : TRUE
                         IN Markup(e, Get(d, e))
                    ELSE IF inside(i) THEN <<>> ELSE <<s[i]>>]
    IN Join(piece, 1, Len(s))

\* C18: when every whitelisted mention resolves to a link, no mention is a
\* substring of another mention and no mention occurs inside a resolved link,
\* the returned text is the input with every occurrence of each whitelisted
\* mention M replaced by "[M](link of M)" and every other character, the
\* mentions of other categories included, unchanged and in the same order.
C18_AllResolvedRewrite ==
    ( /\ pc = "done" /\ Conforming
      /\ Unresolved = {}
      /\ \A a, b \in Candidates \cup OtherMentions : IsSubstring(a, b) => a = b
      /\ \A a \in Candidates \cup OtherMentions : \A b \in Resolved :
           ~IsSubstring(a, Get(entity_link_dict, b).url) ) =>
        result = Linked(input_text, entity_link_dict)

\* C13: determinism. Two calls with the same text and the same label to
\* mentions mapping, against a resolver that gives the same answer for the
\* same mention, return the same string.
C13_Determinism ==
    ( /\ call_no = 2 /\ pc = "done"
      /\ label_entities = prev_label_entities
      /\ Deterministic ) => result = prev_result

\* C13, its case: the second of two such calls has returned a text in which
\* two mentions are linked.
C13_Witness ==
    /\ call_no = 2 /\ pc = "done"
    /\ label_entities = prev_label_entities
    /\ Deterministic
    /\ Conforming
    /\ Cardinality(Resolved) >= 2
    /\ result = prev_result

\* C14: order independence. Two calls with the same text and the same
\* mentions, the labels and the mentions of each label listed in any order,
\* against a resolver that gives the same answer for the same mention,
\* return the same string. Stated for the calls in which the extractor kept
\* its contract.
C14_OrderIndependence ==
    ( /\ call_no = 2 /\ pc = "done"
      /\ Conforming
      /\ Reordered(prev_label_entities, label_entities)
      /\ Deterministic ) => result = prev_result

\* C15, as amended: a failure of the model call is not passed on at once.
\* run_openai_task is attempted again after each exception its body raises,
\* up to 5 attempts in all; an exception reaches the caller only when the
\* fifth attempt has failed, and it is RetryError, not the exception as it
\* was raised.
C15_ExtractorFailureRetried ==
    /\ task_attempt \in 1..5
    /\ task_attempt > 1 => task_error.raised # "none"
    /\ task_pc = "failed" <=> task_error.surfaced # "none"
    /\ task_pc = "failed" =>
         /\ task_attempt = 5
         /\ task_error.raised # "none"
         /\ task_error.surfaced = "RetryError"
    /\ (task_pc = "model" /\ task_error.raised # "none") => task_attempt > 1

\* C15, its case: the model call failed at each of the five attempts and the
\* failure has reached the caller.
C15_Witness ==
    /\ task_pc = "failed"
    /\ task_error.raised \in ModelErrors
    /\ calls = <<>> /\ label_entities = <<>>

\* C15, as stated: when the model call fails, the failure reaches the caller
\* as it was raised, with no retry and no wrapping.
C15_ExtractorFailureUnmodified ==
    task_error.raised \in ModelErrors =>
        /\ task_pc = "failed"
        /\ task_attempt = 1
        /\ task_error.surfaced = task_error.raised

\* The attempt met no hit, or a WikipediaException in search or in page.
NotFound ==
    \/ searched.kind = "titles" /\ searched.titles = <<>>
    \/ searched.kind = "WikipediaException"
    \/ paged = "WikipediaException"

\* C21: not-found and non-transient outcomes are unresolved without retry.
\* When the search returns no hit, or the search or the page lookup raises a
\* WikipediaException, the attempt in which this happens is the last one of
\* the invocation: find_link returns None, nothing is raised to its caller
\* and the attempt counter does not move; if it happens in the first attempt,
\* find_link has returned after exactly one attempt.
C21_NotFoundWithoutRetry ==
    /\ []((fl_pc \in {"returned", "raised"} /\ NotFound) =>
            /\ fl_pc = "returned"
            /\ returned = None
            /\ last_attempt.kind = "return"
            /\ last_attempt.no = attempt)
    /\ [][(fl_pc = "end" /\ NotFound) =>
            /\ fl_pc' = "returned"
            /\ returned' = None
            /\ attempt' = attempt]_vars

\* C21, its case: the page lookup raised a WikipediaException in the first
\* attempt and find_link has returned.
C21_Witness ==
    /\ fl_pc = "returned"
    /\ paged = "WikipediaException"
    /\ attempt = 1

\* C22: first-hit selection. Whenever the search returns at least one title,
\* the only page looked up is that of the first title, and the URL of that
\* page is what find_link returns when the lookup succeeds; no title after
\* the first is looked up or has a part in the result.
C22_FirstHit ==
    /\ Len(looked_up) <= 1
    /\ looked_up # <<>> =>
         (searched.kind = "titles" /\ looked_up = <<searched.titles[1]>>)
    /\ (fl_pc \in {"end", "returned", "raised"}
          /\ searched.kind = "titles" /\ searched.titles # <<>>) =>
         looked_up = <<searched.titles[1]>>
    /\ (fl_pc = "returned" /\ searched.kind = "titles"
          /\ searched.titles # <<>> /\ paged = "page") =>
         returned = Some(PageUrl(searched.titles[1]))

\* C22, its case: the search returned two different titles and find_link
\* has returned a URL.
C22_Witness ==
    /\ fl_pc = "returned"
    /\ Len(searched.titles) >= 2
    /\ searched.titles[2] # searched.titles[1]
    /\ returned.some

\* C23: candidates are told apart by exact, case-sensitive string equality.
\* Whitelisted mentions that differ in a character, be it in case only, are
\* separate keys and find_link is called for each; identical strings are one
\* key; and the rewriting wraps the characters of the text that are a key
\* and leaves alone those that are a key in the other case only.
C23_CaseSensitiveKeys ==
    /\ \A i, j \in DOMAIN entity_link_dict :
         entity_link_dict[i].entity = entity_link_dict[j].entity => i = j
    /\ pc \in {"rewrite", "done"} =>
         /\ Keys(entity_link_dict) = Candidates
         /\ \A e \in Candidates : \E c \in DOMAIN calls : calls[c] = e
    /\ pc = "done" =>
         \A i \in DOMAIN input_text :
            IF <<input_text[i]>> \in Keys(entity_link_dict)
            THEN Wrapped(i, 1)
            ELSE Untouched(i, 1)

\* C23, its case: "g" is a key and "G" is not, and a call on a text that
\* holds both has returned.
C23_Witness ==
    /\ pc = "done"
    /\ Keys(entity_link_dict) = {<<"g">>}
    /\ \E i, j \in DOMAIN input_text :
         input_text[i] = "g" /\ input_text[j] = "G"

\* C24: no side effects and no state shared between calls. No step of a
\* call changes the text or the label to mentions mapping it was given; the
\* link map of a call holds only mentions this call has met, so it is empty
\* when the call begins, and nothing is rewritten yet; and a second call
\* calls find_link again for every candidate, whatever the first call found.
C24_NoSharedState ==
    /\ [](/\ pc = "find_all_links" =>
               /\ Keys(entity_link_dict) \subseteq
                      {items[j].e : j \in 1..(idx - 1)}
               /\ text = input_text /\ k = 1
          /\ (call_no = 2 /\ pc \in {"rewrite", "done"}) =>
               \A e \in Candidates : \E c \in DOMAIN calls : calls[c] = e)
    /\ [][/\ input_text' = input_text
          /\ call_no' = call_no => label_entities' = label_entities]_vars

\* C24, its case: a second call has returned after a first call that had
\* linked a mention.
C24_Witness ==
    /\ call_no = 2
    /\ pc = "done"
    /\ Resolved # {}
    /\ prev_result # input_text

\* a can be had from b by deleting characters of b.
IsSubsequence(a, b) ==
    LET at[i \in 0..Len(a)] ==
            IF i = 0
            THEN 0
            ELSE LET next == {p \in (at[i - 1] + 1)..Len(b) : b[p] = a[i]}
                 IN IF next = {}
                    THEN Len(b) + 1
                    ELSE CHOOSE p \in next : \A q \in next : p <= q
    IN at[Len(a)] <= Len(b)

\* C25: rewriting only inserts. After every replacement step, and so in the
\* returned text, the original text is a subsequence of the current text, no
\* character of it being deleted, changed or moved, and the text is not
\* shorter than the original.
C25_OnlyInserts ==
    /\ IsSubsequence(input_text, text)
    /\ Len(text) >= Len(input_text)
    /\ pc = "done" =>
         (IsSubsequence(input_text, result) /\ Len(result) >= Len(input_text))

\* C25, its case: two replacement steps have rewritten the text and the call
\* has returned.
C25_Witness ==
    /\ pc = "done"
    /\ k = 3
    /\ Len(result) > Len(input_text) + 8

\* C26: when the label to mentions mapping is empty, or lists mentions under
\* categories outside the whitelist only, or lists nothing under the
\* whitelisted categories, find_link is never called, the link map stays
\* empty, no replacement is made and the call returns the input text.
C26_NoCandidates ==
    (\A j \in DOMAIN items :
        items[j].label \notin
            {"event", "gpe", "org", "person", "product", "work_of_art"}) =>
        /\ calls = <<>>
        /\ last_attempt = NoAttempt
        /\ entity_link_dict = <<>>
        /\ text = input_text
        /\ pc # "raised"
        /\ pc = "done" => result = input_text

\* C26, its case: a call whose mapping lists a mention that occurs in the
\* text, under a category outside the whitelist only, has returned.
C26_Witness ==
    /\ pc = "done"
    /\ Candidates = {}
    /\ \E m \in OtherMentions : m # <<>> /\ IsSubstring(m, input_text)

\* The loop of enrich_entities over the entries of d from the n-th on, on t.
RECURSIVE Rewritten(_, _, _)
Rewritten(t, d, n) ==
    IF n > Len(d)
    THEN t
    ELSE Rewritten(Replace(t, d[n].entity, Markup(d[n].entity, d[n].link)),
                   d, n + 1)

\* The entries of d whose key occurs in t.
RECURSIVE Occurring(_, _)
Occurring(d, t) ==
    IF d = <<>>
    THEN <<>>
    ELSE IF IsSubstring(Head(d).entity, t)
    THEN <<Head(d)>> \o Occurring(Tail(d), t)
    ELSE Occurring(Tail(d), t)

\* C27: a whitelisted, non-empty mention that does not occur in the text is
\* resolved once and recorded in the map, and changes nothing in the output:
\* the returned text is what the call returns when the mentions that do not
\* occur in the text are not listed. Stated for the calls in which no
\* mention is empty or listed twice.
C27_AbsentMentionInert ==
    ( /\ pc = "done"
      /\ \A j \in DOMAIN items : items[j].e # <<>>
      /\ \A i, j \in DOMAIN items : items[i].e = items[j].e => i = j ) =>
        /\ \A e \in Candidates :
             ~IsSubstring(e, input_text) =>
                 /\ HasKey(entity_link_dict, e)
                 /\ Cardinality({c \in DOMAIN calls : calls[c] = e}) = 1
        /\ result = Rewritten(input_text,
                              Occurring(entity_link_dict, input_text), 1)

\* C28: resolution precedes rewriting. While find_link is still to be
\* called for some item, nothing has been replaced; when the first
\* replacement is applied every whitelisted mention has been passed to
\* find_link and has its entry in the map; and once the rewriting has begun
\* no resolver call is made and the map does not change.
C28_ResolveThenRewrite ==
    /\ [](/\ (pc = "find_all_links" /\ idx <= Len(items)) =>
               (text = input_text /\ k = 1)
          /\ (k > 1 \/ text # input_text) =>
               /\ pc \in {"rewrite", "done"}
               /\ idx = Len(items) + 1
               /\ \A e \in Candidates :
                    /\ HasKey(entity_link_dict, e)
                    /\ \E c \in DOMAIN calls : calls[c] = e)
    /\ [][(pc \in {"rewrite", "done"}) =>
            /\ calls' = calls
            /\ last_attempt' = last_attempt
            /\ entity_link_dict' = entity_link_dict
            /\ pc' \in {"rewrite", "done"}]_vars

\* C28, its case: two replacements have been applied, for two mentions
\* resolved before.
C28_Witness ==
    /\ pc = "rewrite"
    /\ k = 3
    /\ Len(calls) >= 2
    /\ text # input_text

\* Where the comprehension first meets the mention e under a whitelisted
\* label.
FirstMet(e) ==
    CHOOSE j \in DOMAIN items :
        /\ items[j].e = e
        /\ items[j].label \in
               {"event", "gpe", "org", "person", "product", "work_of_art"}
        /\ \A i \in 1..(j - 1) :
               ~(items[i].e = e /\ items[i].label \in
                   {"event", "gpe", "org", "person", "product", "work_of_art"})

\* C29: the replacements are applied one mention at a time to the text as
\* rewritten so far, in the order in which each distinct mention is first
\* met when going through the categories of the mapping and the mentions of
\* each category: the keys of the map stand in that order, the text after
\* n steps is the input rewritten for the first n keys in turn, and the
\* returned text is the input rewritten for all the keys in turn.
C29_FirstMetOrder ==
    /\ \A a, b \in DOMAIN entity_link_dict :
         a < b => FirstMet(entity_link_dict[a].entity)
                    < FirstMet(entity_link_dict[b].entity)
    /\ pc \in {"rewrite", "done"} =>
         text = Rewritten(input_text, SubSeq(entity_link_dict, 1, k - 1), 1)
    /\ pc = "done" => result = Rewritten(input_text, entity_link_dict, 1)

\* C29, its case: the shorter mention is listed first and is inside the
\* longer one; the call has returned, the shorter one replaced first.
C29_Witness ==
    /\ pc = "done"
    /\ Len(entity_link_dict) = 2
    /\ entity_link_dict[1].entity = <<"a">>
    /\ entity_link_dict[2].entity = <<"a", "b">>
    /\ Resolved = {<<"a">>, <<"a", "b">>}

\* C30: run_openai_task makes at most 5 attempts and returns what the first
\* attempt that raises nothing computed; after an error in the model call,
\* in the parsing or in the enrichment, the next attempt calls the model
\* again and the enrichment starts anew from the original text with an empty
\* map, so that the map and the text of an attempt hold only what that
\* attempt resolved and rewrote.
C30_FreshAttempts ==
    /\ [](/\ task_attempt \in 1..5
          /\ task_pc = "enrich" =>
               /\ \A i \in DOMAIN entity_link_dict :
                    /\ entity_link_dict[i].entity \in Candidates
                    /\ \E c \in DOMAIN calls :
                         calls[c] = entity_link_dict[i].entity
               /\ \A c \in DOMAIN calls : calls[c] \in Candidates
               /\ pc \in {"find_all_links", "raised"} => text = input_text
               /\ pc \in {"rewrite", "done"} =>
                    text = Rewritten(input_text,
                                     SubSeq(entity_link_dict, 1, k - 1), 1)
          /\ task_pc = "returned" =>
               /\ pc = "done"
               /\ result = Rewritten(input_text, entity_link_dict, 1)
               /\ Keys(entity_link_dict) = Candidates)
    /\ [][/\ task_attempt' # task_attempt =>
               /\ task_attempt' = task_attempt + 1
               /\ task_pc' = "model"
               /\ task_error'.raised # "none"
          /\ (task_pc = "enrich" /\ pc = "raised") => task_pc' # "enrich"
          /\ (task_pc' = "enrich" /\ task_pc # "enrich") =>
               /\ task_pc = "model"
               /\ pc' = "find_all_links" /\ idx' = 1
               /\ entity_link_dict' = <<>> /\ calls' = <<>>
               /\ text' = input_text /\ k' = 1
               /\ input_text' = input_text
          /\ task_pc \in {"returned", "failed"} => task_pc' = task_pc]_vars

\* C30, its case: the first attempt resolved the first word and failed on
\* the second; the second attempt, given the second word only, has returned.
C30_Witness ==
    /\ task_pc = "returned"
    /\ task_attempt = 2
    /\ task_error.raised = "RetryError"
    /\ label_entities = << [label |-> "person", entities |-> << <<"b">> >>] >>
    /\ Resolved = {<<"b">>}
    /\ result # input_text

====
